---- MODULE Spec2Model ----
(***************************************************************************)
(* deepseek-translator: the incremental diff / translate / merge pipeline  *)
(* of src/src/deepseek_translator/cli.py (translate_file) and its helpers  *)
(* compute_diff, deep_merge and count_keys (identical in src/main.py).     *)
(*                                                                         *)
(* A JSON value is tagged: Str(s) is a string leaf, Dict(t) a nested       *)
(* object whose content t is a function from its keys to tagged values.    *)
(* A Tree (a Python dict) is such a function t.  isinstance(v, dict) is    *)
(* v.isdict.  A file or a provider reply is modelled by the document its   *)
(* text holds: kind "json" with the parsed document, "malformed" for text  *)
(* json.load / json.loads rejects, "missing" for an absent file.           *)
(***************************************************************************)
EXTENDS Integers, Sequences, FiniteSets, TLC

VARIABLES pc, error, source_file, target_file, source_data, target_data,
          diff_data, translated_raw_data, translated_diff,
          provider_calls, writes, target_before

vars == <<pc, error, source_file, target_file, source_data, target_data,
          diff_data, translated_raw_data, translated_diff,
          provider_calls, writes, target_before>>

----------------------------------------------------------------------------
(* Bounds *)

\* largest number of keys (over all nesting levels) of a Tree handed to
\* compute_diff / deep_merge in FnSpec
MaxNodes == 3
\* largest number of keys of a source / target catalog file in Spec
MaxFileNodes == 2
\* largest number of keys of a provider reply that ignores the payload's shape
MaxRespNodes == 1

Keys == {"a", "b"}
Leaves == {"x", "y"}

----------------------------------------------------------------------------
(* JSON values *)

Str(s) == [isdict |-> FALSE, val |-> s]
Dict(t) == [isdict |-> TRUE, val |-> t]
EmptyTree == [k \in {} |-> Str("x")]

\* number of keys of a Tree, nested keys included (the size the bounds limit)
RECURSIVE Size(_)
Size(t) ==
    LET RECURSIVE Sum(_)
        Sum(ks) == IF ks = {} THEN 0
                   ELSE LET k == CHOOSE x \in ks : TRUE
                        IN 1 + (IF t[k].isdict THEN Size(t[k].val) ELSE 0)
                             + Sum(ks \ {k})
    IN Sum(DOMAIN t)

RECURSIVE TreesUpTo(_)
TreesUpTo(n) ==
    IF n = 0 THEN {EmptyTree}
    ELSE LET vals == {Str(s) : s \in Leaves} \cup {Dict(t) : t \in TreesUpTo(n - 1)}
         IN {f \in UNION {[ks -> vals] : ks \in SUBSET Keys} : Size(f) <= n}

FnTrees == TreesUpTo(MaxNodes)
FileTrees == TreesUpTo(MaxFileNodes)
RespTrees == TreesUpTo(MaxRespNodes)

\* contents of a file / of a reply text
Json(doc) == [kind |-> "json", doc |-> doc]
Malformed == [kind |-> "malformed", doc |-> Str("x")]
Missing == [kind |-> "missing", doc |-> Str("x")]

----------------------------------------------------------------------------
(* Helpers *)

\* def count_keys(data): leaves of a nested dictionary
RECURSIVE count_keys(_)
count_keys(data) ==
    LET RECURSIVE Sum(_)
        Sum(ks) == IF ks = {} THEN 0
                   ELSE LET k == CHOOSE x \in ks : TRUE
                        IN (IF data[k].isdict THEN count_keys(data[k].val) ELSE 1)
                             + Sum(ks \ {k})
    IN Sum(DOMAIN data)

\* compute_diff without "if nested_diff:": an empty nested diff is attached
RECURSIVE compute_diff_keep_empty(_, _)
compute_diff_keep_empty(source, target) ==
    [key \in {k \in DOMAIN source :
                 k \notin DOMAIN target \/ (source[k].isdict /\ target[k].isdict)} |->
        IF key \notin DOMAIN target
        THEN source[key]
        ELSE Dict(compute_diff_keep_empty(source[key].val, target[key].val))]

\* compute_diff that takes a key whose two values differ in shape for missing
RECURSIVE compute_diff_mismatch_copied(_, _)
compute_diff_mismatch_copied(source, target) ==
    LET nested_diff(key) ==
            compute_diff_mismatch_copied(source[key].val, target[key].val)
        kept == {key \in DOMAIN source :
                    \/ key \notin DOMAIN target
                    \/ source[key].isdict # target[key].isdict
                    \/ /\ source[key].isdict
                       /\ target[key].isdict
                       /\ nested_diff(key) # EmptyTree}
    IN [key \in kept |-> IF key \notin DOMAIN target
                            \/ source[key].isdict # target[key].isdict
                         THEN source[key]
                         ELSE Dict(nested_diff(key))]

\* def compute_diff(source, target)
RECURSIVE compute_diff(_, _)
compute_diff(source, target) ==
    LET nested_diff(key) == compute_diff(source[key].val, target[key].val)
        kept == {key \in DOMAIN source :
                    \/ key \notin DOMAIN target
                    \/ /\ source[key].isdict
                       /\ target[key].isdict
                       /\ nested_diff(key) # EmptyTree}
    IN [key \in kept |-> IF key \notin DOMAIN target
                         THEN source[key]
                         ELSE Dict(nested_diff(key))]

\* deep_merge as target.update(ext): a nested object is replaced, not merged
deep_merge_overwrite_nested(target, ext) ==
    [key \in DOMAIN target \cup DOMAIN ext |->
        IF key \notin DOMAIN ext THEN target[key] ELSE ext[key]]

\* deep_merge that only inserts: a key the target has keeps its value unless
\* both values are nested objects
RECURSIVE deep_merge_keep_existing(_, _)
deep_merge_keep_existing(target, ext) ==
    [key \in DOMAIN target \cup DOMAIN ext |->
        IF key \notin DOMAIN ext THEN target[key]
        ELSE IF key \notin DOMAIN target THEN ext[key]
        ELSE IF ext[key].isdict /\ target[key].isdict
             THEN Dict(deep_merge_keep_existing(target[key].val, ext[key].val))
             ELSE target[key]]

\* deep_merge without the recursive call: a nested object the target has is
\* left as it is
deep_merge_skip_nested(target, ext) ==
    [key \in DOMAIN target \cup DOMAIN ext |->
        IF key \notin DOMAIN ext THEN target[key]
        ELSE IF key \in DOMAIN target /\ ext[key].isdict /\ target[key].isdict
             THEN target[key]
             ELSE ext[key]]

\* def deep_merge(target, ext): the value of target after the in-place merge
RECURSIVE deep_merge(_, _)
deep_merge(target, ext) ==
    [key \in DOMAIN target \cup DOMAIN ext |->
        IF key \notin DOMAIN ext THEN target[key]
        ELSE IF key \in DOMAIN target /\ ext[key].isdict /\ target[key].isdict
             THEN Dict(deep_merge(target[key].val, ext[key].val))
             ELSE ext[key]]

----------------------------------------------------------------------------
(* The provider *)

\* the replies that keep the payload's key structure: every string leaf of
\* diff replaced by some string, every nested object kept (PROMPT: "Preserve
\* all keys and structure exactly")
RECURSIVE Translations(_)
Translations(diff) ==
    LET opts(k) == IF diff[k].isdict
                   THEN {Dict(t) : t \in Translations(diff[k].val)}
                   ELSE {Str(s) : s \in Leaves}
    IN {f \in [DOMAIN diff -> UNION {opts(k) : k \in DOMAIN diff}] :
            \A k \in DOMAIN diff : f[k] \in opts(k)}

\* what response.choices[0].message.content can hold for a payload: text that
\* is not JSON, a JSON document that is not an object, an object of the
\* payload's shape, or any other small object
Replies(diff) ==
    {Malformed}
    \cup {Json(Str(s)) : s \in Leaves}
    \cup {Json(Dict(t)) : t \in Translations(diff) \cup RespTrees}

----------------------------------------------------------------------------
(* translate_file: one pipeline run *)

Init ==
    /\ pc = "Loading"
    /\ error = "none"
    /\ source_file \in {Missing, Malformed} \cup {Json(Dict(t)) : t \in FileTrees}
    /\ target_file \in {Missing, Malformed} \cup {Json(Dict(t)) : t \in FileTrees}
    /\ target_before = target_file
    /\ source_data = EmptyTree
    /\ target_data = EmptyTree
    /\ diff_data = EmptyTree
    /\ translated_raw_data = Malformed
    /\ translated_diff = Dict(EmptyTree)
    /\ provider_calls = 0
    /\ writes = 0

\* an exception leaves translate_file: the run is over
Fail(reason) ==
    /\ pc' = "Failed"
    /\ error' = reason

\* "Load source file" and "Load or create target file"
Loading ==
    /\ pc = "Loading"
    /\ IF source_file.kind # "json"
       THEN /\ Fail("LoadError")
            /\ UNCHANGED <<source_data, target_data>>
       ELSE IF target_file.kind = "malformed"
       THEN /\ Fail("LoadError")
            /\ source_data' = source_file.doc.val
            /\ UNCHANGED target_data
       ELSE /\ source_data' = source_file.doc.val
            /\ target_data' = IF target_file.kind = "missing"
                              THEN EmptyTree
                              ELSE target_file.doc.val
            /\ pc' = "Diffing"
            /\ UNCHANGED error
    /\ UNCHANGED <<source_file, target_file, diff_data, translated_raw_data,
                   translated_diff, provider_calls, writes, target_before>>

\* Diffing without the early return
Diffing_no_return ==
    /\ pc = "Diffing"
    /\ diff_data' = compute_diff(source_data, target_data)
    /\ pc' = "Translating"
    /\ UNCHANGED <<error, source_file, target_file, source_data, target_data,
                   translated_raw_data, translated_diff, provider_calls,
                   writes, target_before>>

\* Diffing whose early return tests source_data instead of diff_data
Diffing_tests_source ==
    /\ pc = "Diffing"
    /\ diff_data' = compute_diff(source_data, target_data)
    /\ pc' = IF source_data = EmptyTree THEN "ShortCircuit" ELSE "Translating"
    /\ UNCHANGED <<error, source_file, target_file, source_data, target_data,
                   translated_raw_data, translated_diff, provider_calls,
                   writes, target_before>>

\* "Compute translation needed" and the early return on an empty diff
Diffing ==
    /\ pc = "Diffing"
    /\ diff_data' = compute_diff(source_data, target_data)
    /\ pc' = IF diff_data' = EmptyTree THEN "ShortCircuit" ELSE "Translating"
    /\ UNCHANGED <<error, source_file, target_file, source_data, target_data,
                   translated_raw_data, translated_diff, provider_calls,
                   writes, target_before>>

\* "Translate data": the one call of translate(client, json.dumps(diff_data), prompt)
Translating ==
    /\ pc = "Translating"
    /\ provider_calls' = provider_calls + 1
    /\ \/ /\ Fail("ProviderError")
          /\ UNCHANGED translated_raw_data
       \/ /\ translated_raw_data' \in Replies(diff_data)
          /\ pc' = "Parsing"
          /\ UNCHANGED error
    /\ UNCHANGED <<source_file, target_file, source_data, target_data,
                   diff_data, translated_diff, writes, target_before>>

\* Parsing inside the "with open(target_file, 'w')" block: the target is
\* truncated before json.loads raises
Parsing_after_open ==
    /\ pc = "Parsing"
    /\ IF translated_raw_data.kind # "json"
       THEN /\ Fail("ParseError")
            /\ writes' = writes + 1
            /\ target_file' = Malformed
            /\ UNCHANGED translated_diff
       ELSE /\ translated_diff' = translated_raw_data.doc
            /\ pc' = "Merging"
            /\ UNCHANGED <<error, writes, target_file>>
    /\ UNCHANGED <<source_file, source_data, target_data, diff_data,
                   translated_raw_data, provider_calls, target_before>>

\* Parsing that asks the provider again when the reply does not parse
Parsing_retry ==
    /\ pc = "Parsing"
    /\ IF translated_raw_data.kind # "json"
       THEN /\ pc' = "Translating"
            /\ UNCHANGED <<error, translated_diff>>
       ELSE /\ translated_diff' = translated_raw_data.doc
            /\ pc' = "Merging"
            /\ UNCHANGED error
    /\ UNCHANGED <<source_file, target_file, source_data, target_data,
                   diff_data, translated_raw_data, provider_calls, writes,
                   target_before>>

\* "Parse translated data": json.loads(translated_raw_data)
Parsing ==
    /\ pc = "Parsing"
    /\ IF translated_raw_data.kind # "json"
       THEN /\ Fail("ParseError")
            /\ UNCHANGED translated_diff
       ELSE /\ translated_diff' = translated_raw_data.doc
            /\ pc' = "Merging"
            /\ UNCHANGED error
    /\ UNCHANGED <<source_file, target_file, source_data, target_data,
                   diff_data, translated_raw_data, provider_calls, writes,
                   target_before>>

\* Merging as "target_data = translated_diff"
Merging_replace ==
    /\ pc = "Merging"
    /\ IF ~translated_diff.isdict
       THEN /\ Fail("MergeError")
            /\ UNCHANGED target_data
       ELSE /\ target_data' = translated_diff.val
            /\ pc' = "Persisting"
            /\ UNCHANGED error
    /\ UNCHANGED <<source_file, target_file, source_data, diff_data,
                   translated_raw_data, translated_diff, provider_calls,
                   writes, target_before>>

\* "Merge translations with existing target data"; ext.items() raises
\* AttributeError when the reply is valid JSON but not an object
Merging ==
    /\ pc = "Merging"
    /\ IF ~translated_diff.isdict
       THEN /\ Fail("MergeError")
            /\ UNCHANGED target_data
       ELSE /\ target_data' = deep_merge(target_data, translated_diff.val)
            /\ pc' = "Persisting"
            /\ UNCHANGED error
    /\ UNCHANGED <<source_file, target_file, source_data, diff_data,
                   translated_raw_data, translated_diff, provider_calls,
                   writes, target_before>>

\* "Save translated JSON": makedirs / open may raise before the file is
\* touched; open(target_file, "w") truncates, so a failure of the dump
\* leaves a cut-off document
Persisting ==
    /\ pc = "Persisting"
    /\ \/ /\ writes' = writes + 1
          /\ target_file' = Json(Dict(target_data))
          /\ pc' = "Done"
          /\ UNCHANGED error
       \/ /\ Fail("PersistError")
          /\ UNCHANGED <<writes, target_file>>
       \/ /\ Fail("PersistError")
          /\ writes' = writes + 1
          /\ target_file' = Malformed
    /\ UNCHANGED <<source_file, source_data, target_data, diff_data,
                   translated_raw_data, translated_diff, provider_calls,
                   target_before>>

Next ==
    \/ Loading
    \/ Diffing
    \/ Translating
    \/ Parsing
    \/ Merging
    \/ Persisting

Spec == Init /\ [][Next]_vars

----------------------------------------------------------------------------
(* compute_diff and deep_merge called on arbitrary Trees *)

FnInit ==
    /\ error = "none"
    /\ source_file = Missing
    /\ translated_raw_data = Malformed
    /\ diff_data = EmptyTree
    /\ provider_calls = 0
    /\ writes = 0
    /\ target_data \in FnTrees
    /\ target_file = Json(Dict(target_data))
    /\ target_before = target_file
    /\ \/ /\ pc = "call_compute_diff"
          /\ source_data \in FnTrees
          /\ translated_diff = Dict(EmptyTree)
       \/ /\ pc = "call_deep_merge"
          /\ source_data = EmptyTree
          /\ translated_diff \in {Dict(t) : t \in FnTrees}

\* diff_data = compute_diff(source_data, target_data)
CallComputeDiff ==
    /\ pc = "call_compute_diff"
    /\ diff_data' = compute_diff(source_data, target_data)
    /\ pc' = "ret_compute_diff"
    /\ UNCHANGED <<error, source_file, target_file, source_data, target_data,
                   translated_raw_data, translated_diff, provider_calls,
                   writes, target_before>>

\* deep_merge(target_data, translated_diff)
CallDeepMerge ==
    /\ pc = "call_deep_merge"
    /\ target_data' = deep_merge(target_data, translated_diff.val)
    /\ pc' = "ret_deep_merge"
    /\ UNCHANGED <<error, source_file, target_file, source_data, diff_data,
                   translated_raw_data, translated_diff, provider_calls,
                   writes, target_before>>

FnNext ==
    \/ CallComputeDiff
    \/ CallDeepMerge

FnSpec == FnInit /\ [][FnNext]_vars

----------------------------------------------------------------------------
(* Paths of a Tree, used to state the properties *)

\* the key paths of t: every key of t, and below a nested object its paths
RECURSIVE Paths(_)
Paths(t) ==
    UNION {{<<k>>} \cup (IF t[k].isdict
                         THEN {<<k>> \o p : p \in Paths(t[k].val)}
                         ELSE {}) : k \in DOMAIN t}

\* the value t holds at a path of t
RECURSIVE At(_, _)
At(t, p) == IF Len(p) = 1 THEN t[p[1]] ELSE At(t[p[1]].val, Tail(p))

LeafPaths(t) == {p \in Paths(t) : ~At(t, p).isdict}

IsPrefix(q, p) == Len(q) <= Len(p) /\ SubSeq(p, 1, Len(q)) = q
ProperPrefixes(p) == {SubSeq(p, 1, i) : i \in 1..(Len(p) - 1)}

\* the paths of s whose key is missing from the object t holds at the parent
\* path, every path above being a nested object in t
MissingPaths(s, t) ==
    {q \in Paths(s) :
        /\ q \notin Paths(t)
        /\ \A r \in ProperPrefixes(q) : r \in Paths(t) /\ At(t, r).isdict}

\* the Tree the target file holds when the run starts ({} when it is absent)
LoadedBefore ==
    IF target_before.kind = "json" THEN target_before.doc.val ELSE EmptyTree

----------------------------------------------------------------------------
(* Properties of compute_diff *)

\* C1: the diff is the tree of the diff contract: its paths are the paths of
\* the source at, below or above a key missing from the target (a key absent
\* from the target brings its whole subtree, a nested object present on both
\* sides appears only when its own diff is non-empty, everything else is
\* omitted), each with the source's shape and value; so every leaf of the
\* diff is a leaf of the source, with the source's value, at a path that does
\* not exist in the target.
C1_DiffContract ==
    pc = "ret_compute_diff" =>
        /\ DOMAIN diff_data \subseteq DOMAIN source_data
        /\ \A k \in DOMAIN source_data :
              IF k \notin DOMAIN target_data
              THEN k \in DOMAIN diff_data /\ diff_data[k] = source_data[k]
              ELSE IF source_data[k].isdict /\ target_data[k].isdict
              THEN /\ k \in DOMAIN diff_data <=>
                         Paths(compute_diff(source_data[k].val, target_data[k].val)) # {}
                   /\ k \in DOMAIN diff_data =>
                         diff_data[k] = Dict(compute_diff(source_data[k].val,
                                                          target_data[k].val))
              ELSE k \notin DOMAIN diff_data
        /\ Paths(diff_data) =
              {p \in Paths(source_data) :
                  \E q \in MissingPaths(source_data, target_data) :
                      IsPrefix(q, p) \/ IsPrefix(p, q)}
        /\ \A p \in Paths(diff_data) :
              /\ At(diff_data, p).isdict = At(source_data, p).isdict
              /\ ~At(diff_data, p).isdict => At(diff_data, p) = At(source_data, p)
        /\ \A p \in LeafPaths(diff_data) :
              /\ p \in LeafPaths(source_data)
              /\ At(diff_data, p) = At(source_data, p)
              /\ p \notin Paths(target_data)

\* a diff with a copied subtree, a non-empty nested diff and an omitted key
C1_Witness ==
    /\ pc = "ret_compute_diff"
    /\ \E k \in DOMAIN diff_data : k \in DOMAIN target_data
    /\ \E k \in DOMAIN source_data : k \in DOMAIN target_data /\ k \notin DOMAIN diff_data
    /\ \E p \in LeafPaths(diff_data) : Len(p) = 2

\* C2 as stated: the diff is empty iff every path of the source exists in
\* the target.
C2_EmptyIffAllPathsInTarget ==
    pc = "ret_compute_diff" =>
        (diff_data = EmptyTree <=> Paths(source_data) \subseteq Paths(target_data))

\* C2 amended: the diff is empty iff every path of the source exists in the
\* target or lies below a path at which the target holds a leaf.
C2_EmptyIffNothingMissing ==
    pc = "ret_compute_diff" =>
        (diff_data = EmptyTree <=>
            \A p \in Paths(source_data) :
                \/ p \in Paths(target_data)
                \/ \E q \in ProperPrefixes(p) : q \in LeafPaths(target_data))

\* an empty diff although the target lacks a path of the source
C2_Witness ==
    /\ pc = "ret_compute_diff"
    /\ diff_data = EmptyTree
    /\ ~(Paths(source_data) \subseteq Paths(target_data))

----------------------------------------------------------------------------
(* Properties of deep_merge; the Tree before the merge is target_file.doc.val *)

\* C3 as stated: every leaf path of the target that is not a path of the
\* addition is still there with its value after the merge.
C3_LeafKeptUnlessPathOfExt ==
    pc = "ret_deep_merge" =>
        \A p \in LeafPaths(LoadedBefore) :
            p \notin Paths(translated_diff.val) =>
                p \in LeafPaths(target_data) /\ At(target_data, p) = At(LoadedBefore, p)

\* C3 amended: every leaf path of the target that is not a path of the
\* addition, and that does not lie below a leaf of the addition, is still
\* there with its value after the merge; no top-level key of the target is
\* removed, and a top-level key absent from the addition keeps its value.
C3_MergeNonDestructive ==
    pc = "ret_deep_merge" =>
        /\ \A p \in LeafPaths(LoadedBefore) :
              (/\ p \notin Paths(translated_diff.val)
               /\ \A q \in ProperPrefixes(p) : q \notin LeafPaths(translated_diff.val))
              => p \in LeafPaths(target_data) /\ At(target_data, p) = At(LoadedBefore, p)
        /\ DOMAIN LoadedBefore \subseteq DOMAIN target_data
        /\ \A k \in DOMAIN LoadedBefore \ DOMAIN translated_diff.val :
              target_data[k] = LoadedBefore[k]

\* a nested merge that kept a leaf of the target next to a new key
C3_Witness ==
    /\ pc = "ret_deep_merge"
    /\ \E p \in LeafPaths(LoadedBefore) :
          /\ Len(p) = 2
          /\ p \notin Paths(translated_diff.val)
          /\ ProperPrefixes(p) \subseteq Paths(translated_diff.val)
          /\ p \in LeafPaths(target_data)
    /\ target_data # LoadedBefore

\* C5: after the merge every leaf path of the addition is a leaf path of the
\* target with the addition's value, whatever the target held there.
C5_MergeOverwrite ==
    pc = "ret_deep_merge" =>
        \A p \in LeafPaths(translated_diff.val) :
            p \in LeafPaths(target_data) /\ At(target_data, p) = At(translated_diff.val, p)

\* a leaf of the addition replaced a nested object, another one a leaf
C5_Witness ==
    /\ pc = "ret_deep_merge"
    /\ \E p \in LeafPaths(translated_diff.val) :
          p \in Paths(LoadedBefore) /\ At(LoadedBefore, p).isdict
    /\ \E p \in LeafPaths(translated_diff.val) :
          p \in LeafPaths(LoadedBefore) /\ At(LoadedBefore, p) # At(translated_diff.val, p)

----------------------------------------------------------------------------
(* Properties of a pipeline run *)

\* the run has computed its diff
DiffComputed ==
    /\ pc \notin {"Loading", "Diffing"}
    /\ ~(pc = "Failed" /\ error = "LoadError")

\* r has the key structure of d: the same keys, a string where d has a leaf,
\* an object of the same structure where d has one
RECURSIVE SameShape(_, _)
SameShape(r, d) ==
    /\ DOMAIN r = DOMAIN d
    /\ \A k \in DOMAIN d :
          /\ r[k].isdict = d[k].isdict
          /\ d[k].isdict => SameShape(r[k].val, d[k].val)

\* C4: when the provider returns the diff unchanged, the merged target leaves
\* nothing to translate: the diff of the source against the merged Tree, and
\* against the Tree the written file holds, is empty (as it is after merging
\* the diff of a run that short-circuits).
C4_DiffClosure ==
    /\ (pc \in {"Persisting", "Done"} /\ translated_diff = Dict(diff_data))
          => compute_diff(source_data, target_data) = EmptyTree
    /\ (pc = "Done" /\ translated_diff = Dict(diff_data))
          => compute_diff(source_data, target_file.doc.val) = EmptyTree
    /\ pc = "ShortCircuit"
          => compute_diff(source_data, deep_merge(target_data, diff_data)) = EmptyTree

\* a finished run with the identity reply that merged below an existing key
C4_Witness ==
    /\ pc = "Done"
    /\ translated_diff = Dict(diff_data)
    /\ \E k \in DOMAIN diff_data : k \in DOMAIN LoadedBefore
    /\ target_file # target_before

\* C6: a run whose diff is empty stops in ShortCircuit with no provider call
\* and no write, the target file being what it was before the run, and takes
\* no further step.
C6_NoOpRun ==
    (DiffComputed /\ diff_data = EmptyTree) =>
        /\ pc = "ShortCircuit"
        /\ error = "none"
        /\ provider_calls = 0
        /\ writes = 0
        /\ target_file = target_before
        /\ ~ENABLED Next

\* a no-op run on a target that holds translations
C6_Witness ==
    /\ pc = "ShortCircuit"
    /\ target_before.kind = "json"
    /\ source_data # EmptyTree
    /\ provider_calls = 0

\* C7: a run that failed in a load, in the provider call, in parsing the
\* reply or in the merge has not written: the target file is what it was
\* before the run.
C7_FailureBeforePersist ==
    (pc = "Failed" /\ error \in {"LoadError", "ProviderError", "ParseError", "MergeError"}) =>
        /\ writes = 0
        /\ target_file = target_before

\* a run that failed on a reply that is not JSON, over an existing target
C7_Witness ==
    /\ pc = "Failed"
    /\ error = "ParseError"
    /\ translated_raw_data = Malformed
    /\ target_before.kind = "json"
    /\ target_before.doc.val # EmptyTree

\* C8: after a successful run whose reply has the key structure of the diff,
\* every path the target held before the run is still there, a leaf with its
\* value and a nested object as a nested object.
C8_PartialUpdateSafe ==
    (pc = "Done" /\ translated_diff.isdict /\ SameShape(translated_diff.val, diff_data)) =>
        /\ target_file.kind = "json"
        /\ \A p \in Paths(LoadedBefore) :
              /\ p \in Paths(target_file.doc.val)
              /\ At(target_file.doc.val, p).isdict = At(LoadedBefore, p).isdict
        /\ \A p \in LeafPaths(LoadedBefore) :
              At(target_file.doc.val, p) = At(LoadedBefore, p)

\* a successful run that added a translated leaf next to an existing one
\* inside a nested object
C8_Witness ==
    /\ pc = "Done"
    /\ translated_diff.isdict
    /\ SameShape(translated_diff.val, diff_data)
    /\ translated_diff.val # diff_data
    /\ \E p \in LeafPaths(LoadedBefore) :
          Len(p) = 2 /\ <<p[1]>> \in Paths(diff_data)

\* the order of the steps of a run
StepOrder ==
    {<<"Loading", "Diffing">>, <<"Diffing", "ShortCircuit">>,
     <<"Diffing", "Translating">>, <<"Translating", "Parsing">>,
     <<"Parsing", "Merging">>, <<"Merging", "Persisting">>,
     <<"Persisting", "Done">>}
    \cup {<<s, "Failed">> : s \in {"Loading", "Diffing", "Translating",
                                   "Parsing", "Merging", "Persisting"}}

\* C9: every step of a run follows the order Loading, Diffing, then
\* ShortCircuit or Translating, Parsing, Merging, Persisting, Done, or goes
\* to Failed; the run calls the provider at most once and writes the target
\* at most once, and it writes only in Persisting, after the one provider
\* call, with the parsed reply merged into the loaded target.
C9_StepOrder ==
    [][/\ <<pc, pc'>> \in StepOrder
       /\ provider_calls' <= 1
       /\ writes' <= 1
       /\ provider_calls' > provider_calls => pc = "Translating"
       /\ (writes' > writes \/ target_file' # target_file) =>
             /\ pc = "Persisting"
             /\ provider_calls = 1
             /\ translated_diff.isdict
             /\ target_data = deep_merge(LoadedBefore, translated_diff.val)]_vars

\* a run that went through every step to Done
C9_Witness ==
    /\ pc = "Done"
    /\ provider_calls = 1
    /\ writes = 1
    /\ target_file = Json(Dict(deep_merge(LoadedBefore, translated_diff.val)))

\* C10 as stated: when the provider has been called the diff holds at least
\* one leaf.
C10_CallHasLeaf ==
    provider_calls >= 1 => count_keys(diff_data) >= 1

\* C10 amended: when the provider has been called the diff of the source
\* against the loaded target holds at least one key (possibly no leaf).
C10_CallHasKey ==
    provider_calls >= 1 =>
        /\ diff_data # EmptyTree
        /\ Size(diff_data) >= 1
        /\ diff_data = compute_diff(source_data, LoadedBefore)

\* a provider call, and then a write, for a diff without a leaf
C10_Witness ==
    /\ pc = "Done"
    /\ provider_calls = 1
    /\ writes = 1
    /\ count_keys(diff_data) = 0

====
